---- MODULE Spec2Model ----
(***************************************************************************)
(* Model of loudflow's world and its action resolver                       *)
(* (src/loudflow/realm/worlds/world.py, things/thing.py,                   *)
(* worlds/tile_world/tile_world.py).                                       *)
(*                                                                         *)
(* The registry World.things is a python dict: it is modelled as the       *)
(* sequence of its values in insertion order, which is the order in which  *)
(* World.locate scans it.  One dispatch of an action event on the world's  *)
(* `actions` subject is one step: the subject calls World.on_next of every *)
(* subscription synchronously, and a push re-enters the subject from       *)
(* inside the handler, so the whole cascade belongs to the step.           *)
(* request, events, calls, trace and raised describe the dispatch that has *)
(* just returned; they are dropped when its caller goes on (Return).       *)
(* removed is the set of the ids that World.remove has deleted so far, and *)
(* verdict the value that a predicate of Thing, World.add or World.locate   *)
(* returned when it was last called, with the arguments of the call.       *)
(* world_config, pc and count belong to the construction of a world.       *)
(***************************************************************************)
EXTENDS Integers, Sequences, FiniteSets, TLC

VARIABLES things, subscribers, subscription, request, events, calls, trace, raised,
          removed, verdict, world_config, pc, count

vars == <<things, subscribers, subscription, request, events, calls, trace, raised,
          removed, verdict, world_config, pc, count>>

\* the state of the construction of a world: the configuration object, the
\* place TileWorld.__init__ has reached and the local variable count of its loops
construction == <<world_config, pc, count>>

\* the state of the channels and of the last dispatch
dispatching == <<subscribers, subscription, request, events, calls, trace, removed>>

(***************************************************************************)
(* Bounds of the model.                                                    *)
(***************************************************************************)
\* positions are kept inside the window of the columns 0..MaxX and two rows
MaxX == 3
\* dx and dy of a request range over -MaxDelta..MaxDelta
MaxDelta == 1
\* start() may be called this many times without a stop() in between
MaxSubscribers == 2
\* nesting depth of World.on_next at which the interpreter gives up
MaxDepth == 4

None == "None"
NoError == "none"

Xs == 0..MaxX
Ys == {0, 1}

\* World.width and World.height of the world that is modelled: every column of
\* the window and its first row, where the things are placed
width == MaxX + 1
height == 1
Deltas == (0 - MaxDelta)..MaxDelta

(***************************************************************************)
(* Things.                                                                 *)
(***************************************************************************)
\* str.lower() on the kind labels that occur
LowerTable == [AGENT |-> "agent", TILE |-> "tile", HOLE |-> "hole", OBSTACLE |-> "obstacle",
               CRATE |-> "crate", MINE |-> "mine", Crate |-> "crate", Mine |-> "mine"]

Lower(s) == IF s \in DOMAIN LowerTable THEN LowerTable[s] ELSE s

\* capability profiles of the things placed in the world (ThingConfiguration values)
Hole == [kind |-> "HOLE", can_move |-> FALSE, can_be_destroyed |-> FALSE, can_destroy |-> {"agent", "tile"}]
Agent == [kind |-> "AGENT", can_move |-> TRUE, can_be_destroyed |-> TRUE, can_destroy |-> {"Crate", "Mine"}]
Tile == [kind |-> "TILE", can_move |-> TRUE, can_be_destroyed |-> TRUE, can_destroy |-> {}]
Obstacle == [kind |-> "OBSTACLE", can_move |-> FALSE, can_be_destroyed |-> FALSE, can_destroy |-> {}]
Crate == [kind |-> "CRATE", can_move |-> FALSE, can_be_destroyed |-> TRUE, can_destroy |-> {}]
Mine == [kind |-> "MINE", can_move |-> TRUE, can_be_destroyed |-> TRUE, can_destroy |-> {"agent", "mine"}]

\* the populations the world is built with: thing t1, t2, t3 in insertion order
Casts == {<<Agent, Tile, Hole>>, <<Agent, Tile, Obstacle>>, <<Tile, Agent, Tile>>,
          <<Agent, Mine, Crate>>, <<Mine, Mine>>}

\* the ids of the things, in the order they are added in
Ids == <<"t1", "t2", "t3">>

\* an id that was never a key of the registry
Ghost == "ghost"

Thing(id, config, x, y) ==
    [id |-> id, kind |-> config.kind, x |-> x, y |-> y, can_move |-> config.can_move,
     can_be_destroyed |-> config.can_be_destroyed, can_destroy |-> config.can_destroy]

\* a slip: the kind is looked up as it is written
is_destroyed_by_exact(self, thing) ==
    self.can_be_destroyed /\ self.kind \in thing.can_destroy

is_destroyed_by(self, thing) ==
    self.can_be_destroyed /\ Lower(self.kind) \in {Lower(value) : value \in thing.can_destroy}

\* a slip: can_be_destroyed of the target is not looked at
destroys_whatever(self, thing) ==
    Lower(thing.kind) \in {Lower(value) : value \in self.can_destroy}

destroys(self, thing) ==
    thing.can_be_destroyed /\ Lower(thing.kind) \in {Lower(value) : value \in self.can_destroy}

\* a slip: of the two destroy relations only self.destroys(thing) is looked at
pushes_one_way(self, thing) ==
    IF ~self.can_move THEN FALSE
    ELSE IF ~thing.can_move THEN FALSE
    ELSE IF destroys(self, thing) THEN FALSE
    ELSE TRUE

\* a slip: can_move of the thing to be pushed is not looked at
pushes_immovable(self, thing) ==
    IF ~self.can_move THEN FALSE
    ELSE IF destroys(self, thing) \/ is_destroyed_by(self, thing) THEN FALSE
    ELSE TRUE

\* a slip: the destroy relation is not looked at
pushes_any_movable(self, thing) ==
    IF ~self.can_move THEN FALSE
    ELSE IF ~thing.can_move THEN FALSE
    ELSE TRUE

pushes(self, thing) ==
    IF ~self.can_move THEN FALSE
    ELSE IF ~thing.can_move THEN FALSE
    ELSE IF destroys(self, thing) \/ is_destroyed_by(self, thing) THEN FALSE
    ELSE TRUE

(***************************************************************************)
(* The registry.                                                           *)
(***************************************************************************)
Keys(ths) == {ths[i].id : i \in 1..Len(ths)}

\* self.things[thing_id], for a key of the dict
Get(ths, thing_id) == ths[CHOOSE i \in 1..Len(ths) : ths[i].id = thing_id]

\* a slip: the entry is left in the dict
remove_nothing(ths, thing_id) == ths

\* del self.things[thing_id], for a key of the dict
remove(ths, thing_id) == SelectSeq(ths, LAMBDA t : t.id # thing_id)

\* a slip: the scan starts at the second entry of the dict
locate_skips_first(ths, x, y) ==
    LET hits == {i \in 2..Len(ths) : ths[i].x = x /\ ths[i].y = y}
    IN IF hits = {} THEN None
       ELSE ths[CHOOSE i \in hits : \A j \in hits : i <= j].id

\* the first thing, in the order of the dict, whose position is (x, y);
\* the Thing object is named by its id, None when the scan finds nothing
locate(ths, x, y) ==
    LET hits == {i \in 1..Len(ths) : ths[i].x = x /\ ths[i].y = y}
    IN IF hits = {} THEN None
       ELSE ths[CHOOSE i \in hits : \A j \in hits : i <= j].id

\* self.things[thing.id] = thing: a new key goes to the end of the dict, a key
\* that is there keeps its place and gets the new value
Put(ths, thing) ==
    IF thing.id \in Keys(ths)
    THEN [i \in 1..Len(ths) |-> IF ths[i].id = thing.id THEN thing ELSE ths[i]]
    ELSE Append(ths, thing)

\* a slip: the entry is written before the key is looked up
add_always_inserts(ths, thing, replace, silent) ==
    [things |-> Put(ths, thing), result |-> TRUE, warned |-> FALSE]

\* World.add: the registry afterwards, the value returned, and whether the
\* warning was logged
add(ths, thing, replace, silent) ==
    IF replace
    THEN [things |-> Put(ths, thing), result |-> TRUE, warned |-> FALSE]
    ELSE IF thing.id \notin Keys(ths)
    THEN [things |-> Put(ths, thing), result |-> TRUE, warned |-> FALSE]
    ELSE [things |-> ths, result |-> FALSE, warned |-> ~silent]

\* a slip in the second assignment: actor.y += dx
Shift_y_by_dx(ths, thing_id, dx, dy) ==
    [i \in 1..Len(ths) |->
        IF ths[i].id = thing_id
        THEN [ths[i] EXCEPT !.x = @ + dx, !.y = @ + dx]
        ELSE ths[i]]

\* actor.x += dx; actor.y += dy, on the Thing object with this id
Shift(ths, thing_id, dx, dy) ==
    [i \in 1..Len(ths) |->
        IF ths[i].id = thing_id
        THEN [ths[i] EXCEPT !.x = @ + dx, !.y = @ + dy]
        ELSE ths[i]]


(***************************************************************************)
(* Events.  An event id is a uuid4 string: the action event dispatched by  *)
(* a step has id 1 and the action events derived by pushes take the next   *)
(* unused numbers.                                                         *)
(***************************************************************************)
Move(actor, dx, dy) == [class |-> "Move", actor |-> actor, dx |-> dx, dy |-> dy]

\* an action of a class other than Move
Other(actor) == [class |-> "Other", actor |-> actor, dx |-> 0, dy |-> 0]

ActionEvent(event_id, action) == [event_id |-> event_id, action |-> action]

ActionSucceeded(action_event_id) ==
    [type |-> "ActionSucceeded", action_event_id |-> action_event_id, by |-> None]

ActionNotAllowed(action_event_id) ==
    [type |-> "ActionNotAllowed", action_event_id |-> action_event_id, by |-> None]

ActionBlocked(action_event_id, blocked_by) ==
    [type |-> "ActionBlocked", action_event_id |-> action_event_id, by |-> blocked_by]

ActorDestroyed(action_event_id, destroyed_by) ==
    [type |-> "ActorDestroyed", action_event_id |-> action_event_id, by |-> destroyed_by]

(***************************************************************************)
(* The resolver.  W is the world while a dispatch runs: the registry, the  *)
(* outcome events put on self.events so far, the completed calls of        *)
(* World.move, the trace of effects in program order, the exception that   *)
(* is propagating (NoError when none is) and the next unused event id.     *)
(***************************************************************************)
Entry(op, id, eid, derived) == [op |-> op, id |-> id, eid |-> eid, derived |-> derived]

\* raise: nothing after it runs in any enclosing frame
Raise(W, error) == [W EXCEPT !.raised = error]

\* self.events.on_next(event)
Emit(W, event) ==
    [W EXCEPT !.events = Append(@, event),
              !.trace = Append(@, Entry("emit", event.type, event.action_event_id, 0))]

\* World.remove: del self.things[thing_id] raises KeyError for an absent key
Remove(W, thing_id, event_id) ==
    IF thing_id \in Keys(W.things)
    THEN [W EXCEPT !.things = remove(@, thing_id),
                   !.trace = Append(@, Entry("remove", thing_id, event_id, 0))]
    ELSE Raise(W, "KeyError")

\* a slip: the position of every thing of the registry is changed
Moved_everything(W, thing_id, dx, dy, event_id) ==
    [W EXCEPT !.things = [i \in 1..Len(@) |-> [@[i] EXCEPT !.x = @ + dx, !.y = @ + dy]],
              !.trace = Append(@, Entry("move", thing_id, event_id, 0))]

\* actor.x += dx; actor.y += dy
Moved(W, thing_id, dx, dy, event_id) ==
    [W EXCEPT !.things = Shift(@, thing_id, dx, dy),
              !.trace = Append(@, Entry("move", thing_id, event_id, 0))]

RECURSIVE actions_on_next(_, _, _, _)
RECURSIVE on_next(_, _, _)
RECURSIVE move(_, _, _)
RECURSIVE do_move(_, _, _, _, _, _)
RECURSIVE do_move_with_occupant(_, _, _, _, _, _, _)
RECURSIVE push(_, _, _, _, _, _, _)

\* Event.event_id of an event that is created without one: an identifier no
\* other event of the dispatch has
new_event_id(W) == W.next

\* a slip: the outcome of the push carries the id of the derived request
push_reports_derived(W, actor_id, dx, dy, occupant_id, event_id, depth) ==
    LET action == ActionEvent(new_event_id(W), Move(occupant_id, dx, dy))
        W1 == [W EXCEPT !.next = @ + 1,
                        !.trace = Append(@, Entry("issue", occupant_id, event_id, W.next))]
        W2 == actions_on_next(W1, action, subscribers, depth + 1)
    IN IF W2.raised # NoError THEN W2
       ELSE Emit(Moved(W2, actor_id, dx, dy, event_id), ActionSucceeded(action.event_id))

\* a slip: the actor is moved only when the occupant has left the cell
push_waits_for_occupant(W, actor_id, dx, dy, occupant_id, event_id, depth) ==
    LET action == ActionEvent(new_event_id(W), Move(occupant_id, dx, dy))
        W1 == [W EXCEPT !.next = @ + 1,
                        !.trace = Append(@, Entry("issue", occupant_id, event_id, W.next))]
        W2 == actions_on_next(W1, action, subscribers, depth + 1)
        occupant == Get(W.things, occupant_id)
    IN IF W2.raised # NoError THEN W2
       ELSE IF occupant_id \in Keys(W2.things) /\ Get(W2.things, occupant_id) = occupant
       THEN Emit(W2, ActionBlocked(event_id, occupant_id))
       ELSE Emit(Moved(W2, actor_id, dx, dy, event_id), ActionSucceeded(event_id))

\* the branch of actor.pushes(occupant): the derived request goes through
\* self.actions, is resolved by whoever is subscribed, and then the actor moves
push(W, actor_id, dx, dy, occupant_id, event_id, depth) ==
    LET action == ActionEvent(new_event_id(W), Move(occupant_id, dx, dy))
        W1 == [W EXCEPT !.next = @ + 1,
                        !.trace = Append(@, Entry("issue", occupant_id, event_id, W.next))]
        W2 == actions_on_next(W1, action, subscribers, depth + 1)
    IN IF W2.raised # NoError THEN W2
       ELSE Emit(Moved(W2, actor_id, dx, dy, event_id), ActionSucceeded(event_id))

\* the branch of actor.destroys(occupant) and actor.is_destroyed_by(occupant)
destroy_both(W, actor_id, occupant_id, event_id) ==
    LET W1 == Remove(W, actor_id, event_id)
        W2 == IF W1.raised # NoError THEN W1 ELSE Remove(W1, occupant_id, event_id)
    IN IF W2.raised # NoError THEN W2
       ELSE Emit(W2, ActorDestroyed(event_id, occupant_id))

\* a slip: the occupant is removed but the actor is left where it was
destroy_occupant_stay(W, actor_id, dx, dy, occupant_id, event_id) ==
    LET W1 == Remove(W, occupant_id, event_id)
    IN IF W1.raised # NoError THEN W1
       ELSE Emit(W1, ActionSucceeded(event_id))

\* the branch of actor.destroys(occupant)
destroy_occupant(W, actor_id, dx, dy, occupant_id, event_id) ==
    LET W1 == Remove(W, occupant_id, event_id)
    IN IF W1.raised # NoError THEN W1
       ELSE Emit(Moved(W1, actor_id, dx, dy, event_id), ActionSucceeded(event_id))

\* a slip: the occupant is removed in place of the actor
destroy_actor_wrong_thing(W, actor_id, occupant_id, event_id) ==
    LET W1 == Remove(W, occupant_id, event_id)
    IN IF W1.raised # NoError THEN W1
       ELSE Emit(W1, ActorDestroyed(event_id, occupant_id))

\* the branch of actor.is_destroyed_by(occupant)
destroy_actor(W, actor_id, occupant_id, event_id) ==
    LET W1 == Remove(W, actor_id, event_id)
    IN IF W1.raised # NoError THEN W1
       ELSE Emit(W1, ActorDestroyed(event_id, occupant_id))

\* a slip: the event names the actor as the blocker
blocked_by_actor(W, actor_id, occupant_id, event_id) ==
    Emit(W, ActionBlocked(event_id, actor_id))

\* the last branch
blocked(W, actor_id, occupant_id, event_id) ==
    Emit(W, ActionBlocked(event_id, occupant_id))

do_move_with_occupant(W, actor_id, dx, dy, occupant_id, event_id, depth) ==
    LET actor == Get(W.things, actor_id)
        occupant == Get(W.things, occupant_id)
    IN IF pushes(actor, occupant)
       THEN push(W, actor_id, dx, dy, occupant_id, event_id, depth)
       ELSE IF destroys(actor, occupant) /\ is_destroyed_by(actor, occupant)
       THEN destroy_both(W, actor_id, occupant_id, event_id)
       ELSE IF destroys(actor, occupant)
       THEN destroy_occupant(W, actor_id, dx, dy, occupant_id, event_id)
       ELSE IF is_destroyed_by(actor, occupant)
       THEN destroy_actor(W, actor_id, occupant_id, event_id)
       ELSE blocked(W, actor_id, occupant_id, event_id)

\* a slip: can_move is only tested when the destination is occupied
do_move_late_test(W, actor_id, dx, dy, event_id, depth) ==
    LET actor == Get(W.things, actor_id)
        occupant == locate(W.things, actor.x + dx, actor.y + dy)
    IN IF occupant = None
       THEN Emit(Moved(W, actor_id, dx, dy, event_id), ActionSucceeded(event_id))
       ELSE IF actor.can_move
       THEN do_move_with_occupant(W, actor_id, dx, dy, occupant, event_id, depth)
       ELSE Emit(W, ActionNotAllowed(event_id))

do_move(W, actor_id, dx, dy, event_id, depth) ==
    LET actor == Get(W.things, actor_id)
    IN IF actor.can_move
       THEN LET occupant == locate(W.things, actor.x + dx, actor.y + dy)
            IN IF occupant = None
               THEN Emit(Moved(W, actor_id, dx, dy, event_id), ActionSucceeded(event_id))
               ELSE do_move_with_occupant(W, actor_id, dx, dy, occupant, event_id, depth)
       ELSE Emit(W, ActionNotAllowed(event_id))

\* a slip: an unknown actor is answered with ActionNotAllowed
move_unknown_not_allowed(W, event, depth) ==
    LET W1 == IF event.action.actor \notin Keys(W.things)
              THEN Emit(W, ActionNotAllowed(event.event_id))
              ELSE do_move(W, event.action.actor, event.action.dx, event.action.dy,
                           event.event_id, depth)
        call == [event_id |-> event.event_id, actor |-> event.action.actor,
                 dx |-> event.action.dx, dy |-> event.action.dy, depth |-> depth,
                 before |-> W.things, after |-> W1.things, raised |-> W1.raised,
                 ev_from |-> Len(W.events), ev_to |-> Len(W1.events),
                 tr_from |-> Len(W.trace), tr_to |-> Len(W1.trace)]
    IN [W1 EXCEPT !.calls = Append(@, call)]

\* World.move; the call is recorded when it returns or raises
move(W, event, depth) ==
    LET W1 == IF event.action.actor \notin Keys(W.things)
              THEN Raise(W, "ValueError")
              ELSE do_move(W, event.action.actor, event.action.dx, event.action.dy,
                           event.event_id, depth)
        call == [event_id |-> event.event_id, actor |-> event.action.actor,
                 dx |-> event.action.dx, dy |-> event.action.dy, depth |-> depth,
                 before |-> W.things, after |-> W1.things, raised |-> W1.raised,
                 ev_from |-> Len(W.events), ev_to |-> Len(W1.events),
                 tr_from |-> Len(W.trace), tr_to |-> Len(W1.trace)]
    IN [W1 EXCEPT !.calls = Append(@, call)]

\* a slip: an action that is no Move is passed over in silence
on_next_ignores_other(W, event, depth) ==
    IF depth > MaxDepth THEN Raise(W, "RecursionError")
    ELSE IF event.action.class = "Move" THEN move(W, event, depth)
    ELSE W

\* World.on_next; a handler nested deeper than the interpreter's stack allows
\* raises RecursionError
on_next(W, event, depth) ==
    IF depth > MaxDepth THEN Raise(W, "RecursionError")
    ELSE IF event.action.class = "Move" THEN move(W, event, depth)
    ELSE Raise(W, "ValueError")

\* Subject.on_next of self.actions: the event is handed to each of the n
\* subscriptions in turn, in the caller's stack; an exception ends the loop
actions_on_next(W, event, n, depth) ==
    IF n = 0 \/ W.raised # NoError THEN W
    ELSE actions_on_next(on_next(W, event, depth), event, n - 1, depth)

(***************************************************************************)
(* The state machine.                                                      *)
(***************************************************************************)
InWindow(ths) == \A i \in 1..Len(ths) : ths[i].x \in Xs /\ ths[i].y \in Ys

NoRequest == [via |-> "none", event |-> ActionEvent(0, Move(Ghost, 0, 0))]

NoVerdict == [name |-> "none", value |-> FALSE]

\* no configuration object has been constructed
NoConfig == [class |-> "None"]

\* no configuration and no world is being constructed
NotConstructing == /\ world_config = NoConfig /\ pc = "idle" /\ count = 0

\* n things are placed on distinct cells of the first row
Placements(n) ==
    {p \in [1..n -> Xs \X {0}] : \A i, j \in 1..n : i # j => p[i] # p[j]}

Init ==
    /\ \E cast \in Casts : \E p \in Placements(Len(cast)) :
          things = [i \in 1..Len(cast) |-> Thing(Ids[i], cast[i], p[i][1], p[i][2])]
    /\ subscribers = 0
    /\ subscription = None
    /\ request = NoRequest
    /\ events = <<>>
    /\ calls = <<>>
    /\ trace = <<>>
    /\ raised = NoError
    /\ removed = {}
    /\ verdict = NoVerdict
    /\ NotConstructing

Fresh == [things |-> things, events |-> <<>>, calls |-> <<>>, trace |-> <<>>,
          raised |-> NoError, next |-> 2]

\* the actions of the requests: every move of a thing placed in the world,
\* a move of an id the registry never held, and an action that is no Move
Steps == {d \in Deltas \X Deltas : d[1] = 0 \/ d[2] = 0}

Actions == {Move(Ids[i], d[1], d[2]) : i \in 1..Len(Ids), d \in Steps}
               \cup {Move(Ghost, 1, 0), Other(Ids[1])}

Idle == request = NoRequest

\* the ids that World.remove deleted in the course of a dispatch
Deleted(tr) == {tr[i].id : i \in {j \in 1..Len(tr) : tr[j].op = "remove"}}

Settle(W, via, event) ==
    /\ Idle
    /\ InWindow(W.things)
    /\ things' = W.things
    /\ events' = W.events
    /\ calls' = W.calls
    /\ trace' = W.trace
    /\ raised' = W.raised
    /\ request' = [via |-> via, event |-> event]
    /\ removed' = removed \cup Deleted(W.trace)
    /\ UNCHANGED <<subscribers, subscription, verdict, construction>>

\* world.actions.on_next(ActionEvent(action)), as Console.event_handler does
Send(action) ==
    LET event == ActionEvent(1, action)
    IN Settle(actions_on_next(Fresh, event, subscribers, 1), "actions", event)

\* world.on_next(ActionEvent(action)) called on the world itself
Resolve(action) ==
    LET event == ActionEvent(1, action)
    IN Settle(on_next(Fresh, event, 1), "world", event)

\* the caller of the dispatch goes on: the next event is awaited
Return ==
    /\ ~Idle
    /\ request' = NoRequest
    /\ events' = <<>>
    /\ calls' = <<>>
    /\ trace' = <<>>
    /\ raised' = NoError
    /\ UNCHANGED <<things, subscribers, subscription, removed, verdict, construction>>

\* TileWorld.start
start ==
    /\ Idle
    /\ subscribers < MaxSubscribers
    /\ subscribers' = subscribers + 1
    /\ subscription' = "live"
    /\ UNCHANGED <<things, request, events, calls, trace, raised, removed, verdict,
                   construction>>

\* a slip: the subscription is marked as disposed but stays on the subject
stop_keeps_observer ==
    /\ Idle
    /\ IF subscription = "live"
       THEN subscribers' = subscribers /\ subscription' = "disposed"
       ELSE UNCHANGED <<subscribers, subscription>>
    /\ UNCHANGED <<things, request, events, calls, trace, raised, removed, verdict,
                   construction>>

\* TileWorld.stop
stop ==
    /\ Idle
    /\ IF subscription = "live"
       THEN subscribers' = subscribers - 1 /\ subscription' = "disposed"
       ELSE UNCHANGED <<subscribers, subscription>>
    /\ UNCHANGED <<things, request, events, calls, trace, raised, removed, verdict,
                   construction>>

Next ==
    \/ \E action \in Actions : Send(action)
    \/ \E action \in Actions : Resolve(action)
    \/ Return
    \/ start
    \/ stop

Spec == Init /\ [][Next]_vars

(***************************************************************************)
(* The predicates of Thing on their own: two things are built from any two *)
(* configurations and each predicate is asked of the pair.                 *)
(***************************************************************************)
\* values of ThingConfiguration.kind and members of ThingConfiguration.can_destroy
Kinds == {"AGENT", "Mine", "tile"}
Labels == {"agent", "MINE", "tile"}

Configs == [kind : Kinds, can_move : BOOLEAN, can_be_destroyed : BOOLEAN,
            can_destroy : SUBSET Labels]

InitPairs ==
    /\ \E a \in Configs : \E b \in Configs :
          things = <<Thing(Ids[1], a, 0, 0), Thing(Ids[2], b, 1, 0)>>
    /\ subscribers = 0
    /\ subscription = None
    /\ request = NoRequest
    /\ events = <<>>
    /\ calls = <<>>
    /\ trace = <<>>
    /\ raised = NoError
    /\ removed = {}
    /\ verdict = NoVerdict
    /\ NotConstructing

\* the predicate returns; it has read the two things and assigned nothing
Returns(name, value) ==
    /\ verdict' = [name |-> name, value |-> value]
    /\ UNCHANGED <<things, raised, dispatching, construction>>

AskIsDestroyedBy == Returns("is_destroyed_by", is_destroyed_by(things[1], things[2]))

AskDestroys == Returns("destroys", destroys(things[1], things[2]))

AskPushes == Returns("pushes", pushes(things[1], things[2]))

\* a predicate is asked of the pair and then of the pair the other way round
ReturnsBoth(name, value, mirrored) ==
    /\ verdict' = [value |-> value, name |-> name, mirrored |-> mirrored]
    /\ UNCHANGED <<things, raised, dispatching, construction>>

\* things[1].destroys(things[2]), then things[2].is_destroyed_by(things[1])
AskDestroysAndMirror ==
    ReturnsBoth("destroys, is_destroyed_by", destroys(things[1], things[2]),
                is_destroyed_by(things[2], things[1]))

\* things[1].pushes(things[2]), then things[2].pushes(things[1])
AskPushesAndMirror ==
    ReturnsBoth("pushes, pushes", pushes(things[1], things[2]), pushes(things[2], things[1]))

NextPairs ==
    \/ AskIsDestroyedBy
    \/ AskDestroys
    \/ AskPushes
    \/ AskDestroysAndMirror
    \/ AskPushesAndMirror

SpecPairs == InitPairs /\ [][NextPairs]_vars

(***************************************************************************)
(* The registry on its own: things are added to an empty world and cells   *)
(* are looked up, by any caller and in any order.                          *)
(***************************************************************************)
\* the Thing objects that are handed to World.add
Newcomers ==
    {Thing(id, cfg, x, 0) : id \in {Ids[1], Ids[2], Ids[3]}, cfg \in {Agent, Obstacle}, x \in {0, 1}}

InitRegistry ==
    /\ things = <<>>
    /\ subscribers = 0
    /\ subscription = None
    /\ request = NoRequest
    /\ events = <<>>
    /\ calls = <<>>
    /\ trace = <<>>
    /\ raised = NoError
    /\ removed = {}
    /\ verdict = NoVerdict
    /\ NotConstructing

\* world.add(thing, replace, silent)
CallAdd(thing, replace, silent) ==
    LET out == add(things, thing, replace, silent)
    IN /\ things' = out.things
       /\ verdict' = [name |-> "add", value |-> out.result, warned |-> out.warned,
                      thing |-> thing, replace |-> replace, silent |-> silent,
                      before |-> things]
       /\ UNCHANGED <<raised, dispatching, construction>>

\* world.locate(x, y); earlier is what the call before it returned, when that
\* was a call of locate for the same cell
CallLocate(x, y) ==
    /\ verdict' = [name |-> "locate", value |-> locate(things, x, y), x |-> x, y |-> y,
                   before |-> things,
                   earlier |-> IF verdict.name = "locate" /\ verdict.x = x /\ verdict.y = y
                               THEN <<verdict.value>> ELSE <<>>]
    /\ UNCHANGED <<things, raised, dispatching, construction>>

NextRegistry ==
    \/ \E thing \in Newcomers : \E replace \in BOOLEAN : \E silent \in BOOLEAN :
          CallAdd(thing, replace, silent)
    \/ \E x \in {0, 1} : CallLocate(x, 0)

SpecRegistry == InitRegistry /\ [][NextRegistry]_vars

(***************************************************************************)
(* The construction of a tile world: TileWorld.__init__ adds the agent and *)
(* then runs its three loops, each iteration placing one thing on a cell   *)
(* that randint picks.  A density is a float that is a multiple of 1/4,    *)
(* which float arithmetic multiplies exactly; it is written num / den.     *)
(***************************************************************************)
Density(num, den) == [num |-> num, den |-> den]

\* the configurations a tile world is constructed from
TileWorldConfigurations ==
    [class : {"TileWorldConfiguration"}, width : {1, 2}, height : {1, 2},
     obstacles : {Density(0, 1), Density(1, 4), Density(1, 2), Density(3, 4)},
     holes : {Density(0, 1), Density(1, 4), Density(1, 2)}]

\* str(uuid4()) of the n-th Thing that is created: no two are the same
uuid4 == <<"u1", "u2", "u3", "u4", "u5", "u6", "u7", "u8">>

\* a slip: the product is rounded to the nearest integer
quota_rounded(density, cell_count) == (2 * density.num * cell_count + density.den) \div (2 * density.den)

\* int(density * cell_count)
quota(density, cell_count) == (density.num * cell_count) \div density.den

\* a slip: the half is rounded up
half_rounded_up(n) == (n + 1) \div 2

\* int(n / 2)
half(n) == n \div 2

cell_count == world_config.width * world_config.height

obstacle_count == quota(world_config.obstacles, cell_count)

hole_count == quota(world_config.holes, cell_count)

tile_count == hole_count

InitGenerate ==
    /\ world_config \in TileWorldConfigurations
    /\ pc = "agent"
    /\ count = 0
    /\ things = <<>>
    /\ subscribers = 0
    /\ subscription = None
    /\ request = NoRequest
    /\ events = <<>>
    /\ calls = <<>>
    /\ trace = <<>>
    /\ raised = NoError
    /\ removed = {}
    /\ verdict = NoVerdict

\* self.add(thing, replace=False, silent=True) of a thing just created
Placed(profile, x, y) ==
    add(things, Thing(uuid4[Len(things) + 1], profile, x, y), FALSE, TRUE).things

\* one iteration of a placement loop: a thing on a cell drawn by randint, then
\* count -= 1
Iteration(at, profile) ==
    /\ pc = at
    /\ count > 0
    /\ \E x \in 0..(world_config.width - 1) : \E y \in 0..(world_config.height - 1) :
          things' = Placed(profile, x, y)
    /\ count' = count - 1
    /\ UNCHANGED <<pc, world_config, verdict, raised, dispatching>>

\* a loop is left when count > 0 fails, and the next count is set
Leave(at, to, next_count) ==
    /\ pc = at
    /\ ~(count > 0)
    /\ pc' = to
    /\ count' = next_count
    /\ UNCHANGED <<things, world_config, verdict, raised, dispatching>>

PlaceAgent ==
    /\ pc = "agent"
    /\ things' = Placed(Agent, half(world_config.width), half(world_config.height))
    /\ pc' = "obstacles"
    /\ count' = obstacle_count
    /\ UNCHANGED <<world_config, verdict, raised, dispatching>>

PlaceObstacle == Iteration("obstacles", Obstacle)

ObstaclesPlaced == Leave("obstacles", "holes", hole_count)

PlaceHole == Iteration("holes", Hole)

HolesPlaced == Leave("holes", "tiles", tile_count)

PlaceTile == Iteration("tiles", Tile)

TilesPlaced == Leave("tiles", "done", 0)

NextGenerate ==
    \/ PlaceAgent
    \/ PlaceObstacle
    \/ ObstaclesPlaced
    \/ PlaceHole
    \/ HolesPlaced
    \/ PlaceTile
    \/ TilesPlaced

SpecGenerate == InitGenerate /\ [][NextGenerate]_vars

(***************************************************************************)
(* The configuration classes.  A frozen dataclass runs __post_init__ on    *)
(* the values the caller gave; an attribute holds a Python value, modelled *)
(* by its type and its content (a number is num / den).                    *)
(***************************************************************************)
PyNone == [type |-> "NoneType", num |-> 0, den |-> 1, str |-> ""]
PyStr(s) == [type |-> "str", num |-> 0, den |-> 1, str |-> s]
PyInt(n) == [type |-> "int", num |-> n, den |-> 1, str |-> ""]
PyFloat(num, den) == [type |-> "float", num |-> num, den |-> den, str |-> ""]

isinstance(value, cls) == value.type = cls

\* object.__setattr__(self, attribute, value)
setattr(self, attribute, value) == [self EXCEPT ![attribute] = value]

\* raise ValueError(message), and the normal end of __post_init__
ValueError(self) == [raised |-> "ValueError", self |-> self]
Initialised(self) == [raised |-> NoError, self |-> self]

WorldConfiguration_post_init_any_name(self) ==
    IF self.name = PyNone THEN ValueError(self)
    ELSE LET w == IF self.width = PyNone THEN setattr(self, "width", PyInt(80)) ELSE self
         IN  IF ~isinstance(w.width, "int") THEN ValueError(w)
             ELSE LET h == IF w.height = PyNone THEN setattr(w, "height", PyInt(50)) ELSE w
                  IN  IF ~isinstance(h.height, "int") THEN ValueError(h)
                      ELSE Initialised(h)

WorldConfiguration_post_init(self) ==
    IF self.name = PyNone THEN ValueError(self)
    ELSE IF ~isinstance(self.name, "str") THEN ValueError(self)
    ELSE LET w == IF self.width = PyNone THEN setattr(self, "width", PyInt(80)) ELSE self
         IN  IF ~isinstance(w.width, "int") THEN ValueError(w)
             ELSE LET h == IF w.height = PyNone THEN setattr(w, "height", PyInt(50)) ELSE w
                  IN  IF ~isinstance(h.height, "int") THEN ValueError(h)
                      ELSE Initialised(h)

\* super().__post_init__() first; a None density sets the attribute "width",
\* and the isinstance test that follows reads the density itself
TileWorldConfiguration_post_init(self) ==
    LET base == WorldConfiguration_post_init(self)
    IN  IF base.raised # NoError THEN base
        ELSE LET o == IF base.self.obstacles = PyNone
                         THEN setattr(base.self, "width", PyFloat(1, 100))
                         ELSE base.self
             IN  IF ~isinstance(o.obstacles, "float") THEN ValueError(o)
                 ELSE LET h == IF o.holes = PyNone
                                  THEN setattr(o, "width", PyFloat(1, 1000))
                                  ELSE o
                      IN  IF ~isinstance(h.holes, "float") THEN ValueError(h)
                          ELSE Initialised(h)

\* the values a caller passes
GivenNames == {PyNone, PyStr("test"), PyInt(7)}
GivenSizes == {PyNone, PyInt(80), PyInt(3), PyFloat(1, 2), PyStr("80")}
GivenDensities == {PyNone, PyFloat(0, 1), PyFloat(1, 4), PyInt(1)}

InitConfig ==
    /\ NotConstructing
    /\ things = <<>>
    /\ subscribers = 0
    /\ subscription = None
    /\ request = NoRequest
    /\ events = <<>>
    /\ calls = <<>>
    /\ trace = <<>>
    /\ raised = NoError
    /\ removed = {}
    /\ verdict = NoVerdict

\* a constructor call: the object exists only when __post_init__ returns
Constructed(given, outcome) ==
    /\ world_config' = IF outcome.raised = NoError THEN outcome.self ELSE NoConfig
    /\ raised' = outcome.raised
    /\ verdict' = [self |-> outcome.self, value |-> outcome.raised = NoError,
                   name |-> given.class, given |-> given]
    /\ UNCHANGED <<things, pc, count, dispatching>>

ConstructWorldConfiguration ==
    \E name \in GivenNames : \E w \in GivenSizes : \E h \in GivenSizes :
        LET given == [width |-> w, height |-> h, class |-> "WorldConfiguration", name |-> name]
        IN  Constructed(given, WorldConfiguration_post_init(given))

ConstructTileWorldConfiguration ==
    \E name \in GivenNames : \E w \in GivenSizes : \E h \in GivenSizes :
    \E obstacles \in GivenDensities : \E holes \in GivenDensities :
        LET given == [width |-> w, height |-> h, class |-> "TileWorldConfiguration",
                      name |-> name, obstacles |-> obstacles, holes |-> holes]
        IN  Constructed(given, TileWorldConfiguration_post_init(given))

NextConfig ==
    \/ ConstructWorldConfiguration
    \/ ConstructTileWorldConfiguration

SpecConfig == InitConfig /\ [][NextConfig]_vars

(***************************************************************************)
(* Properties.  They are stated of the calls of World.move that the last   *)
(* dispatch made: the dispatched request and the requests derived from it. *)
(***************************************************************************)
CallIdx == 1..Len(calls)

\* the actor id of the call was a key of the registry when the call began
Known(c) == c.actor \in Keys(c.before)

ActorOf(c) == Get(c.before, c.actor)

\* what locate returned for the destination cell of the call
OccupantOf(c) == locate(c.before, ActorOf(c).x + c.dx, ActorOf(c).y + c.dy)

Movable(c) == Known(c) /\ ActorOf(c).can_move

\* a movable actor and an occupied destination
Meets(c) == Movable(c) /\ OccupantOf(c) # None

\* the outcome events the call put on self.events for its own request
OutcomesOf(c) == {i \in (c.ev_from + 1)..c.ev_to : events[i].action_event_id = c.event_id}

\* the call emitted e and no other outcome for its request
OnlyOutcome(c, e) ==
    /\ Cardinality(OutcomesOf(c)) = 1
    /\ \A i \in OutcomesOf(c) : events[i] = e

At(ths, id, x, y) == id \in Keys(ths) /\ Get(ths, id).x = x /\ Get(ths, id).y = y

\* every thing of the registry but those in ids is as it was before the call
OthersKept(c, ids) ==
    \A id \in Keys(c.before) \ ids : id \in Keys(c.after) /\ Get(c.after, id) = Get(c.before, id)

\* the call left the registry and every position as they were
Untouched(c) == c.after = c.before

\* C1: every call of World.move whose actor id is a key of the registry puts
\* exactly one outcome event with the request's event id on self.events.
C1_ExactlyOneOutcome ==
    \A k \in CallIdx : Known(calls[k]) => Cardinality(OutcomesOf(calls[k])) = 1

\* C2: a call of World.move whose actor id is no key of the registry raises
\* ValueError, emits no event and leaves the registry and all positions alone.
C2_UnknownActorRaises ==
    \A k \in CallIdx :
        ~Known(calls[k]) =>
            /\ calls[k].raised = "ValueError"
            /\ calls[k].ev_to = calls[k].ev_from
            /\ Untouched(calls[k])

C2_Witness ==
    \E k \in CallIdx :
        /\ ~Known(calls[k])
        /\ calls[k].raised = "ValueError"
        /\ Len(calls[k].before) > 0

\* C3: a call whose actor has can_move = FALSE emits ActionNotAllowed and
\* nothing else and changes nothing, whatever is in the destination cell.
C3_NotMovableNotAllowed ==
    \A k \in CallIdx :
        (Known(calls[k]) /\ ~ActorOf(calls[k]).can_move) =>
            /\ calls[k].raised = NoError
            /\ OnlyOutcome(calls[k], ActionNotAllowed(calls[k].event_id))
            /\ calls[k].ev_to = calls[k].ev_from + 1
            /\ Untouched(calls[k])

\* an immovable actor whose destination cell holds another thing
C3_Witness ==
    /\ \E k \in CallIdx :
          /\ Known(calls[k]) /\ ~ActorOf(calls[k]).can_move
          /\ OccupantOf(calls[k]) \notin {None, calls[k].actor}
          /\ events[calls[k].ev_to].type = "ActionNotAllowed"
    /\ Len(things) > 1

\* C4: a call with a movable actor and an empty destination cell emits
\* ActionSucceeded, puts the actor on (x + dx, y + dy) and removes nothing.
C4_FreeCellMove ==
    \A k \in CallIdx :
        (Movable(calls[k]) /\ OccupantOf(calls[k]) = None) =>
            /\ calls[k].raised = NoError
            /\ OnlyOutcome(calls[k], ActionSucceeded(calls[k].event_id))
            /\ At(calls[k].after, calls[k].actor,
                  ActorOf(calls[k]).x + calls[k].dx, ActorOf(calls[k]).y + calls[k].dy)
            /\ Keys(calls[k].after) = Keys(calls[k].before)
            /\ OthersKept(calls[k], {calls[k].actor})

\* a move along y into an empty cell
C4_Witness ==
    \E k \in CallIdx :
        /\ Movable(calls[k]) /\ OccupantOf(calls[k]) = None
        /\ calls[k].dy # 0
        /\ At(calls[k].after, calls[k].actor, ActorOf(calls[k]).x, ActorOf(calls[k]).y + calls[k].dy)

\* the places in the trace where the call handed a derived request to self.actions
IssuesOf(c) ==
    {i \in (c.tr_from + 1)..c.tr_to : trace[i].op = "issue" /\ trace[i].eid = c.event_id}

\* the places in the trace where the call changed the position of its actor
MovesOf(c) ==
    {i \in (c.tr_from + 1)..c.tr_to :
        trace[i].op = "move" /\ trace[i].eid = c.event_id /\ trace[i].id = c.actor}

Pushing(c) == Meets(c) /\ pushes(ActorOf(c), Get(c.before, OccupantOf(c)))

\* C5: when the actor pushes the occupant, a derived Move of the occupant with
\* the same (dx, dy) is handed to self.actions before the actor's position is
\* changed, then the actor is moved by (dx, dy) and ActionSucceeded is emitted
\* for the request, whatever became of the derived request.
C5_PushThenMove ==
    \A k \in CallIdx :
        Pushing(calls[k]) =>
            /\ \E i \in IssuesOf(calls[k]) :
                  /\ trace[i].id = OccupantOf(calls[k])
                  /\ \A j \in MovesOf(calls[k]) : i < j
            /\ MovesOf(calls[k]) # {}
            /\ calls[k].raised = NoError
            /\ At(calls[k].after, calls[k].actor,
                  ActorOf(calls[k]).x + calls[k].dx, ActorOf(calls[k]).y + calls[k].dy)
            /\ OnlyOutcome(calls[k], ActionSucceeded(calls[k].event_id))

\* the cell two steps away, beyond the occupant
Beyond(c) == locate(c.before, ActorOf(c).x + 2 * c.dx, ActorOf(c).y + 2 * c.dy)

\* C6: a movable actor at p moves by d into a cell holding a movable occupant,
\* no destroy relation between them, p + 2d empty: afterwards the occupant is at
\* p + 2d, the actor at p + d, both are in the registry, and the outcome is
\* ActionSucceeded.
C6_PushResult ==
    \A k \in CallIdx :
        (Pushing(calls[k]) /\ Beyond(calls[k]) = None) =>
            /\ At(calls[k].after, OccupantOf(calls[k]),
                  ActorOf(calls[k]).x + 2 * calls[k].dx, ActorOf(calls[k]).y + 2 * calls[k].dy)
            /\ At(calls[k].after, calls[k].actor,
                  ActorOf(calls[k]).x + calls[k].dx, ActorOf(calls[k]).y + calls[k].dy)
            /\ OnlyOutcome(calls[k], ActionSucceeded(calls[k].event_id))

Mutual(c) ==
    /\ Meets(c)
    /\ destroys(ActorOf(c), Get(c.before, OccupantOf(c)))
    /\ is_destroyed_by(ActorOf(c), Get(c.before, OccupantOf(c)))

\* C7: when the actor destroys the occupant and is destroyed by it, both are
\* removed from the registry, the outcome is ActorDestroyed with destroyed_by
\* the occupant's id, and no position changes.
C7_MutualDestruction ==
    \A k \in CallIdx :
        Mutual(calls[k]) =>
            /\ Keys(calls[k].after) = Keys(calls[k].before) \ {calls[k].actor, OccupantOf(calls[k])}
            /\ OthersKept(calls[k], {calls[k].actor, OccupantOf(calls[k])})
            /\ OnlyOutcome(calls[k], ActorDestroyed(calls[k].event_id, OccupantOf(calls[k])))

ActorWins(c) ==
    /\ Meets(c)
    /\ destroys(ActorOf(c), Get(c.before, OccupantOf(c)))
    /\ ~is_destroyed_by(ActorOf(c), Get(c.before, OccupantOf(c)))

\* C8: when the actor destroys the occupant and is not destroyed by it, the
\* occupant is removed, the actor is put on the destination cell and stays in
\* the registry, and the outcome is ActionSucceeded.
C8_ActorDestroysOccupant ==
    \A k \in CallIdx :
        ActorWins(calls[k]) =>
            /\ calls[k].raised = NoError
            /\ Keys(calls[k].after) = Keys(calls[k].before) \ {OccupantOf(calls[k])}
            /\ At(calls[k].after, calls[k].actor,
                  ActorOf(calls[k]).x + calls[k].dx, ActorOf(calls[k]).y + calls[k].dy)
            /\ OthersKept(calls[k], {calls[k].actor, OccupantOf(calls[k])})
            /\ OnlyOutcome(calls[k], ActionSucceeded(calls[k].event_id))

C8_Witness ==
    \E k \in CallIdx :
        /\ ActorWins(calls[k])
        /\ OccupantOf(calls[k]) \notin Keys(calls[k].after)
        /\ calls[k].actor \in Keys(calls[k].after)
        /\ Get(calls[k].after, calls[k].actor).x # ActorOf(calls[k]).x

OccupantWins(c) ==
    /\ Meets(c)
    /\ is_destroyed_by(ActorOf(c), Get(c.before, OccupantOf(c)))
    /\ ~destroys(ActorOf(c), Get(c.before, OccupantOf(c)))

\* C9: when the occupant destroys the actor and the actor does not destroy it,
\* the actor is removed, the occupant stays in the registry where it was, and
\* the outcome is ActorDestroyed with destroyed_by the occupant's id.
C9_OccupantDestroysActor ==
    \A k \in CallIdx :
        OccupantWins(calls[k]) =>
            /\ calls[k].raised = NoError
            /\ Keys(calls[k].after) = Keys(calls[k].before) \ {calls[k].actor}
            /\ OthersKept(calls[k], {calls[k].actor})
            /\ OnlyOutcome(calls[k], ActorDestroyed(calls[k].event_id, OccupantOf(calls[k])))

C9_Witness ==
    \E k \in CallIdx :
        /\ OccupantWins(calls[k])
        /\ calls[k].actor \notin Keys(calls[k].after)
        /\ OccupantOf(calls[k]) \in Keys(calls[k].after)
        /\ events[calls[k].ev_to].type = "ActorDestroyed"

Stuck(c) ==
    /\ Meets(c)
    /\ ~pushes(ActorOf(c), Get(c.before, OccupantOf(c)))
    /\ ~destroys(ActorOf(c), Get(c.before, OccupantOf(c)))
    /\ ~is_destroyed_by(ActorOf(c), Get(c.before, OccupantOf(c)))

\* C10: when the actor neither pushes nor destroys the occupant and is not
\* destroyed by it, the outcome is ActionBlocked with blocked_by the occupant's
\* id and nothing changes.
C10_Blocked ==
    \A k \in CallIdx :
        Stuck(calls[k]) =>
            /\ calls[k].raised = NoError
            /\ OnlyOutcome(calls[k], ActionBlocked(calls[k].event_id, OccupantOf(calls[k])))
            /\ Untouched(calls[k])

C10_Witness ==
    \E k \in CallIdx :
        /\ Stuck(calls[k])
        /\ events[calls[k].ev_to] = ActionBlocked(calls[k].event_id, OccupantOf(calls[k]))
        /\ OccupantOf(calls[k]) # calls[k].actor

(***************************************************************************)
(* Invariants of the registry over a whole dispatch.                       *)
(***************************************************************************)
\* no two things of the registry are on the same cell
Distinct(ths) ==
    \A i, j \in 1..Len(ths) : i # j => (ths[i].x # ths[j].x \/ ths[i].y # ths[j].y)

\* the registry as the dispatch found it: the first call of World.move began with it
Before == (CHOOSE c \in {calls[k] : k \in CallIdx} : c.depth = 1 /\ c.tr_from = 0).before

\* the last dispatch resolved its request, cascade included, without an exception
Resolved == calls # <<>> /\ raised = NoError

\* C11: when a dispatch that began with no two things on one cell has been
\* resolved completely, cascade included, no two things of the registry are on
\* the same cell.
C11_Occupancy == (Resolved /\ Distinct(Before)) => Distinct(things)

\* the position is one of the world's cells
InBounds(t) == 0 <= t.x /\ t.x < width /\ 0 <= t.y /\ t.y < height

\* C12: every thing of the registry is on a cell of the world, 0 <= x < width
\* and 0 <= y < height, after any sequence of Move requests, the things having
\* been placed on cells of the world.
C12_Bounds == \A i \in 1..Len(things) : InBounds(things[i])

\* C13: the resolution of every Move request ends by itself, for every registry
\* and every (dx, dy), (0, 0) included: the nesting of World.on_next that a push
\* cascade builds up never exhausts the interpreter's stack.
C13_Terminates == raised # "RecursionError"

\* the ids that World.remove had deleted when the call began: in an earlier
\* dispatch, or earlier in the dispatch of the call
GoneBefore(c) == (removed \ Deleted(trace)) \cup Deleted(SubSeq(trace, 1, c.tr_from))

\* C14: an id that a resolution has removed from the registry is never a key of
\* the registry again, and every later call of World.move that names it as the
\* actor raises ValueError, emits no event and changes nothing.
C14_NeverResurrected ==
    /\ removed \cap Keys(things) = {}
    /\ \A k \in CallIdx :
          calls[k].actor \in GoneBefore(calls[k]) =>
              /\ calls[k].actor \notin Keys(calls[k].before)
              /\ calls[k].raised = "ValueError"
              /\ calls[k].ev_to = calls[k].ev_from
              /\ Untouched(calls[k])

\* a request sent on the channel of a started world names a thing that an
\* earlier dispatch removed
C14_Witness ==
    /\ request.via = "actions"
    /\ \E k \in CallIdx :
          /\ calls[k].actor \in removed \ Deleted(trace)
          /\ calls[k].raised = "ValueError"
    /\ events = <<>>

\* C15: within a resolution World.remove is only called with an id that is a
\* key of the registry at that moment: no call of World.move ends in the
\* KeyError of a failed removal.
C15_RemoveNeverFails == \A k \in CallIdx : calls[k].raised # "KeyError"

\* the places in the trace where the call moved its actor or emitted its outcome
OwnSteps(c) ==
    {j \in (c.tr_from + 1)..c.tr_to :
        trace[j].eid = c.event_id /\ trace[j].op \in {"move", "emit"}}

\* the calls of World.move that resolved the request derived at place i of the trace
SubCalls(c, i) ==
    {m \in CallIdx : /\ calls[m].event_id = trace[i].derived
                     /\ calls[m].tr_from >= i
                     /\ calls[m].tr_to <= c.tr_to}

\* the request of the call is the dispatched one or was derived by a push of
\* the same dispatch before the call began
OfThisDispatch(c) ==
    \/ c.event_id = request.event.event_id
    \/ \E i \in 1..c.tr_from : trace[i].op = "issue" /\ trace[i].derived = c.event_id

\* C16: requests are resolved one at a time to completion: when a call has
\* derived a request by a push and goes on to move its actor and emit its
\* outcome, the derived request has been resolved before, its outcome emitted
\* and its changes made, and no call of the dispatch resolves a request that is
\* neither the dispatched one nor derived from it.
C16_OneAtATime ==
    /\ \A k \in CallIdx : \A i \in IssuesOf(calls[k]) :
          OwnSteps(calls[k]) # {} =>
              /\ SubCalls(calls[k], i) # {}
              /\ \A m \in SubCalls(calls[k], i) :
                    /\ calls[m].raised = NoError
                    /\ OutcomesOf(calls[m]) # {}
                    /\ \A j \in OwnSteps(calls[k]) : calls[m].tr_to < j
    /\ \A k \in CallIdx : OfThisDispatch(calls[k])

\* the rules of _do_move_with_occupant that the pair of the call satisfies
RulesOf(c) ==
    {r \in {"push", "mutual", "actor destroys", "occupant destroys", "blocked"} :
        \/ r = "push" /\ Pushing(c)
        \/ r = "mutual" /\ Mutual(c)
        \/ r = "actor destroys" /\ ActorWins(c)
        \/ r = "occupant destroys" /\ OccupantWins(c)
        \/ r = "blocked" /\ Stuck(c)}

\* the types of the outcome events of the call
OutcomeTypes(c) == {events[i].type : i \in OutcomesOf(c)}

\* what the rules make of a call with a movable actor and an occupied cell
RuledOutcome(c) ==
    IF is_destroyed_by(ActorOf(c), Get(c.before, OccupantOf(c))) THEN "ActorDestroyed"
    ELSE IF Stuck(c) THEN "ActionBlocked"
    ELSE "ActionSucceeded"

\* C19: for a movable actor and an occupied destination cell the pair of actor
\* and occupant satisfies exactly one of the five rules, and the call has one
\* outcome: ActorDestroyed if and only if the actor is destroyed by the
\* occupant, ActionBlocked if and only if the occupant is neither pushed nor in
\* a destroy relation with the actor, ActionSucceeded otherwise.
C19_RulesTotal ==
    \A k \in CallIdx :
        Meets(calls[k]) =>
            /\ Cardinality(RulesOf(calls[k])) = 1
            /\ Cardinality(OutcomesOf(calls[k])) = 1
            /\ OutcomeTypes(calls[k]) = {RuledOutcome(calls[k])}

\* the outcome events the call itself put on self.events, those of the calls
\* nested in it left out
OwnEvents(c) ==
    {i \in (c.ev_from + 1)..c.ev_to :
        ~\E m \in CallIdx : /\ calls[m].depth > c.depth
                            /\ calls[m].ev_from >= c.ev_from
                            /\ calls[m].ev_from < i
                            /\ i <= calls[m].ev_to}

\* C20: every outcome event carries the event id of the request that the call
\* emitting it resolves: the dispatched request's id in a call for the
\* dispatched request, and in a call for a request derived by a push the id of
\* the derived event, which is not the id of the request that derived it.
C20_OutcomeCarriesRequestId ==
    \A k \in CallIdx :
        /\ \A i \in OwnEvents(calls[k]) : events[i].action_event_id = calls[k].event_id
        /\ calls[k].depth = 1 => calls[k].event_id = request.event.event_id
        /\ calls[k].depth > 1 =>
              \E i \in 1..calls[k].tr_from :
                  /\ trace[i].op = "issue"
                  /\ trace[i].derived = calls[k].event_id
                  /\ trace[i].eid # calls[k].event_id

\* a push whose derived request and whose own request both have their outcome
C20_Witness ==
    \E k, m \in CallIdx :
        /\ calls[k].depth = 1 /\ calls[m].depth = 2
        /\ OwnEvents(calls[k]) # {} /\ OwnEvents(calls[m]) # {}
        /\ \A i \in OwnEvents(calls[m]) : events[i].action_event_id # request.event.event_id

\* the event is a change notification of the thing being at (x, y)
Notifies(e, thing_id, x, y) ==
    e.type = "ChangeEvent" /\ e.thing_id = thing_id /\ e.x = x /\ e.y = y

\* C21: a call of World.move that changes the position of its actor emits,
\* besides its outcome, a change notification naming the actor and its new
\* (x, y); a call that moves nothing emits no change notification.
C21_ChangeNotified ==
    \A k \in CallIdx :
        IF MovesOf(calls[k]) # {}
        THEN \E i \in OwnEvents(calls[k]) :
                Notifies(events[i], calls[k].actor,
                         ActorOf(calls[k]).x + calls[k].dx, ActorOf(calls[k]).y + calls[k].dy)
        ELSE \A i \in OwnEvents(calls[k]) : events[i].type # "ChangeEvent"

(***************************************************************************)
(* Push cascades.                                                          *)
(***************************************************************************)
\* what locate returned, or would return, for the cell i steps from the actor
LineAt(c, i) == locate(c.before, ActorOf(c).x + i * c.dx, ActorOf(c).y + i * c.dy)

\* the actor of the call faces a line of n contiguous things, each pushed by the
\* one before it, with an empty cell of the world behind the last; no cell
\* holds two things
Line(c, n) ==
    /\ Movable(c)
    /\ Distinct(c.before)
    /\ InBounds([x |-> ActorOf(c).x + (n + 1) * c.dx, y |-> ActorOf(c).y + (n + 1) * c.dy])
    /\ \A i \in 1..n :
          /\ LineAt(c, i) # None
          /\ pushes(Get(c.before, LineAt(c, i - 1)), Get(c.before, LineAt(c, i)))
    /\ LineAt(c, n + 1) = None

\* the effects of the call and of the calls nested in it, in program order
EffectsOf(c, op) ==
    SelectSeq(SubSeq(trace, c.tr_from + 1, c.tr_to), LAMBDA e : e.op = op)

\* C31: when a movable actor moves by d into a line of n >= 1 contiguous movable
\* things, no destroy relation between neighbours, with an empty cell behind the
\* line, the actor and every thing of the line end displaced by exactly d, no
\* two things share a cell, and n + 1 ActionSucceeded events are emitted, for
\* the farthest thing of the line first and for the actor last.
C31_PushChain ==
    \A k \in CallIdx : \A n \in 1..Len(calls[k].before) :
        Line(calls[k], n) =>
            LET c == calls[k]
                moves == EffectsOf(c, "move")
                emits == EffectsOf(c, "emit")
            IN  /\ c.raised = NoError
                /\ \A i \in 0..n :
                      At(c.after, LineAt(c, i),
                         ActorOf(c).x + (i + 1) * c.dx, ActorOf(c).y + (i + 1) * c.dy)
                /\ Distinct(c.after)
                /\ Len(moves) = n + 1
                /\ \A j \in 1..Len(moves) : moves[j].id = LineAt(c, n + 1 - j)
                /\ Len(emits) = n + 1
                /\ c.ev_to = c.ev_from + n + 1
                /\ \A j \in 1..Len(emits) :
                      /\ emits[j].id = "ActionSucceeded"
                      /\ j <= Len(moves) => emits[j].eid = moves[j].eid
                /\ events[c.ev_to] = ActionSucceeded(c.event_id)

\* the calls of World.move that resolved a request which the call derived
DerivedCalls(c) == UNION {SubCalls(c, i) : i \in IssuesOf(c)}

\* the call pushed the occupant, and the occupant's derived move was resolved
\* and ended in ActionBlocked
PushBlocked(c) ==
    /\ Pushing(c)
    /\ DerivedCalls(c) # {}
    /\ \A m \in DerivedCalls(c) :
          /\ calls[m].actor = OccupantOf(c)
          /\ OutcomeTypes(calls[m]) = {"ActionBlocked"}

\* C32: when the derived move of the pushed occupant ends in ActionBlocked, the
\* occupant keeps its position, the actor is moved by (dx, dy) into the
\* occupant's cell all the same, and the outcome of the request is
\* ActionSucceeded.
C32_FailedCascadeMovesActor ==
    \A k \in CallIdx :
        PushBlocked(calls[k]) =>
            /\ calls[k].raised = NoError
            /\ OccupantOf(calls[k]) \in Keys(calls[k].after)
            /\ Get(calls[k].after, OccupantOf(calls[k])) = Get(calls[k].before, OccupantOf(calls[k]))
            /\ At(calls[k].after, calls[k].actor,
                  ActorOf(calls[k]).x + calls[k].dx, ActorOf(calls[k]).y + calls[k].dy)
            /\ OnlyOutcome(calls[k], ActionSucceeded(calls[k].event_id))

\* an agent pushes a tile that an obstacle blocks, and ends on the tile's cell
C32_Witness ==
    \E k \in CallIdx :
        /\ PushBlocked(calls[k])
        /\ calls[k].depth = 1
        /\ Beyond(calls[k]) # None
        /\ ~Get(calls[k].before, Beyond(calls[k])).can_move
        /\ ~Distinct(calls[k].after)
        /\ events[calls[k].ev_to] = ActionSucceeded(calls[k].event_id)

\* the actor pushes the occupant, and the cell behind the occupant holds a
\* thing that destroys the occupant and is not destroyed by it
PushedIntoDestroyer(c) ==
    /\ Pushing(c)
    /\ Distinct(c.before)
    /\ Beyond(c) # None
    /\ is_destroyed_by(Get(c.before, OccupantOf(c)), Get(c.before, Beyond(c)))
    /\ ~destroys(Get(c.before, OccupantOf(c)), Get(c.before, Beyond(c)))

\* C37: when the actor pushes an occupant whose next cell holds a thing that
\* destroys it, the occupant is removed from the registry and ActorDestroyed is
\* emitted for the derived request, the destroyer stays where it is, the actor
\* then is on the occupant's former cell with ActionSucceeded emitted for the
\* request, and no two things share a cell.
C37_PushedIntoDestroyer ==
    \A k \in CallIdx :
        PushedIntoDestroyer(calls[k]) =>
            LET c == calls[k]
            IN  /\ c.raised = NoError
                /\ OccupantOf(c) \notin Keys(c.after)
                /\ Beyond(c) \in Keys(c.after)
                /\ Get(c.after, Beyond(c)) = Get(c.before, Beyond(c))
                /\ At(c.after, c.actor, ActorOf(c).x + c.dx, ActorOf(c).y + c.dy)
                /\ Distinct(c.after)
                /\ c.ev_to = c.ev_from + 2
                /\ \E i \in IssuesOf(c) :
                      events[c.ev_from + 1] = ActorDestroyed(trace[i].derived, Beyond(c))
                /\ events[c.ev_to] = ActionSucceeded(c.event_id)

(***************************************************************************)
(* The channel of the world.                                               *)
(***************************************************************************)
\* the step dispatches an action event
Dispatches == request = NoRequest /\ request' # NoRequest

\* the dispatched event reaches World.on_next: it is handed to the world
\* itself, or put on self.actions while the world is subscribed
Received == request'.via = "world" \/ subscribers > 0

\* C33: an action event received by the world whose action is not a Move is
\* rejected with a raised ValueError: no outcome event is emitted, World.move is
\* not called, and the registry and all positions are as they were.
C33_NonMoveRejected ==
    [][(Dispatches /\ Received /\ request'.event.action.class # "Move") =>
           /\ raised' = "ValueError"
           /\ events' = <<>>
           /\ calls' = <<>>
           /\ trace' = <<>>
           /\ things' = things]_vars

\* an action that is no Move, sent on the channel of a started world
C33_Witness ==
    /\ request.via = "actions"
    /\ request.event.action = Other(Ids[1])
    /\ subscribers = 1
    /\ raised = "ValueError"
    /\ Len(things) > 1

\* start() has been called once and stop() has not been called since
StartedOnce == subscription = "live" /\ subscribers = 1

\* start() has never been called
NeverStarted == subscription = None

\* stop() has been called and has ended the subscription of a single start()
Stopped == subscription = "disposed" /\ subscribers = 0

\* a Move is put on the channel self.actions
SendsMove ==
    Dispatches /\ request'.via = "actions" /\ request'.event.action.class = "Move"

\* the calls of World.move that the step made for the dispatched event itself
TopCalls == {k \in 1..Len(calls') : calls'[k].depth = 1}

\* C34: the first start() subscribes the world once and the stop() that follows
\* it ends that subscription; a Move sent on the world's action channel is
\* resolved exactly once when start() has been called once and stop() not since,
\* and sent before start() or after stop() it changes nothing and no event is
\* emitted; the derived request of a push is resolved only while the world is
\* subscribed.
C34_SubscriptionLifecycle ==
    [][/\ (NeverStarted /\ subscription' = "live") => StartedOnce'
       /\ (StartedOnce /\ subscription' = "disposed") => Stopped'
       /\ (SendsMove /\ StartedOnce) =>
              /\ Cardinality(TopCalls) = 1
              /\ \A k \in TopCalls : calls'[k].event_id = request'.event.event_id
       /\ (SendsMove /\ (NeverStarted \/ Stopped)) =>
              /\ calls' = <<>>
              /\ events' = <<>>
              /\ trace' = <<>>
              /\ raised' = NoError
              /\ things' = things
       /\ (Dispatches /\ \E k \in 1..Len(calls') : calls'[k].depth > 1) =>
              subscribers > 0]_vars

\* after start() and stop(), the Move of a movable thing into a free cell is
\* sent on the channel and nothing resolves it
C34_Witness ==
    /\ Stopped
    /\ request.via = "actions"
    /\ request.event.action.class = "Move"
    /\ request.event.action.actor \in Keys(things)
    /\ Get(things, request.event.action.actor).can_move
    /\ request.event.action.dx # 0
    /\ calls = <<>>
    /\ events = <<>>

(***************************************************************************)
(* The frame of a resolution.                                              *)
(***************************************************************************)
\* the call and the calls nested in it: a call is recorded when it returns, so
\* the nested ones are the deeper calls recorded just before it
Cascade(k) == {m \in 1..k : \A j \in m..(k - 1) : calls[j].depth > calls[k].depth}

\* the actors of the call and of its cascaded sub-requests
Movers(k) == {calls[m].actor : m \in Cascade(k)}

\* the actor and the occupant of the destination cell of a call
Pair(c) == IF Known(c) THEN {c.actor, OccupantOf(c)} \ {None} ELSE {}

\* the actors and occupants of the call and of its cascaded sub-requests
Removable(k) == UNION {Pair(calls[m]) : m \in Cascade(k)}

\* what a thing is, apart from where it is
Identity(t) ==
    [id |-> t.id, kind |-> t.kind, can_move |-> t.can_move,
     can_be_destroyed |-> t.can_be_destroyed, can_destroy |-> t.can_destroy]

\* C35: a call of World.move changes the position only of its actor and of the
\* actors of its cascaded sub-requests, and removes only the actor or the
\* occupant of the destination cell of the call or of a cascaded sub-request;
\* every other thing keeps its position and its entry, no thing is added, and
\* no thing's id, kind, can_move, can_be_destroyed or can_destroy changes.
C35_Frame ==
    \A k \in CallIdx :
        LET c == calls[k]
            gone == Keys(c.before) \ Keys(c.after)
            movers == Movers(k)
        IN  /\ Keys(c.after) \subseteq Keys(c.before)
            /\ gone # {} => gone \subseteq Removable(k)
            /\ \A id \in Keys(c.after) :
                  \/ Get(c.after, id) = Get(c.before, id)
                  \/ /\ Identity(Get(c.after, id)) = Identity(Get(c.before, id))
                     /\ id \in movers
            /\ Keys(things) \subseteq Keys(c.before)

\* a push that moved the actor and the occupant and left a third thing alone
C35_Witness ==
    \E k \in CallIdx :
        /\ calls[k].depth = 1
        /\ Cardinality(Cascade(k)) = 2
        /\ Cardinality({id \in Keys(calls[k].after) :
                            Get(calls[k].after, id) # Get(calls[k].before, id)}) = 2
        /\ \E id \in Keys(calls[k].before) \ (Movers(k) \cup Removable(k)) :
              Get(calls[k].after, id) = Get(calls[k].before, id)

\* the outcome events that the call itself emitted
OwnOutcomeTypes(c) == {events[i].type : i \in OwnEvents(c)}

\* C36: a request derived by a push never resolves to ActionNotAllowed: every
\* outcome of a call of World.move for a derived request is ActionSucceeded,
\* ActionBlocked or ActorDestroyed.
C36_DerivedNeverNotAllowed ==
    \A k \in CallIdx :
        calls[k].depth > 1 =>
            /\ Known(calls[k]) => ActorOf(calls[k]).can_move
            /\ OwnOutcomeTypes(calls[k]) \subseteq
                   {"ActionSucceeded", "ActionBlocked", "ActorDestroyed"}

\* derived requests that ended in each of the three outcomes are reached; this
\* one was blocked
C36_Witness ==
    \E k \in CallIdx :
        /\ calls[k].depth = 2
        /\ OwnOutcomeTypes(calls[k]) = {"ActionBlocked"}
        /\ calls[k].raised = NoError

(***************************************************************************)
(* Properties of the predicates of Thing, stated of SpecPairs: self is the *)
(* first thing of the pair and other the second.                           *)
(***************************************************************************)
\* the spellings of one kind that differ in the case of their letters only
Folds == {{"AGENT", "agent"}, {"Mine", "MINE", "mine"}, {"tile", "TILE", "Tile"}}

SameButCase(a, b) == a = b \/ \E f \in Folds : a \in f /\ b \in f

\* b can be destroyed and its kind is, but for case, in the destroy set of a
Kills(a, b) == b.can_be_destroyed /\ \E v \in a.can_destroy : SameButCase(v, b.kind)

\* C17: self.pushes(other) implies self.can_move and other.can_move and neither
\* self.destroys(other) nor self.is_destroyed_by(other), for every combination
\* of the capabilities of the two things.
C17_PushesImplies ==
    (verdict.name = "pushes" /\ verdict.value) =>
        /\ things[1].can_move
        /\ things[2].can_move
        /\ ~Kills(things[1], things[2])
        /\ ~Kills(things[2], things[1])

\* pushes is true of a pair whose actor has a destroy set that misses the other
C17_Witness ==
    /\ verdict = [name |-> "pushes", value |-> TRUE]
    /\ things[1].can_destroy # {}
    /\ things[2].can_be_destroyed

\* C18: self.is_destroyed_by(other) is true exactly when self.can_be_destroyed
\* and self.kind is, case ignored, a member of other.can_destroy; and
\* self.destroys(other) is true exactly when other.can_be_destroyed and
\* other.kind is, case ignored, a member of self.can_destroy; both return a
\* boolean for every pair.
C18_DestroyPredicates ==
    /\ verdict.value \in BOOLEAN
    /\ verdict.name = "is_destroyed_by" => (verdict.value <=> Kills(things[2], things[1]))
    /\ verdict.name = "destroys" => (verdict.value <=> Kills(things[1], things[2]))

\* is_destroyed_by is true of a kind that is spelled in another case in the
\* destroy set of the other thing
C18_Witness ==
    /\ verdict = [name |-> "is_destroyed_by", value |-> TRUE]
    /\ things[1].kind \notin things[2].can_destroy

\* C38: for every pair of things A and B, A.destroys(B) returns what
\* B.is_destroyed_by(A) returns.
C38_DestroyDuality ==
    verdict.name = "destroys, is_destroyed_by" => verdict.value = verdict.mirrored

\* both are true of a pair whose kind is spelled in another case in the destroy set
C38_Witness ==
    /\ verdict.name = "destroys, is_destroyed_by"
    /\ verdict.value
    /\ verdict.mirrored
    /\ things[2].kind \notin things[1].can_destroy

\* C39: for every pair of things A and B, A.pushes(B) returns what B.pushes(A)
\* returns.
C39_PushesSymmetric ==
    verdict.name = "pushes, pushes" => verdict.value = verdict.mirrored

\* neither pushes the other because only the second destroys the first
C39_Witness ==
    /\ verdict.name = "pushes, pushes"
    /\ ~verdict.value
    /\ ~verdict.mirrored
    /\ things[1].can_move /\ things[2].can_move
    /\ Kills(things[2], things[1])
    /\ ~Kills(things[1], things[2])

(***************************************************************************)
(* Properties of World.add and World.locate, stated of SpecRegistry: the   *)
(* verdict holds the last call, its arguments and the registry before it.  *)
(***************************************************************************)
\* the registry holds the thing under its id and every other entry as before
Inserted(before, after, thing) ==
    /\ Keys(after) = Keys(before) \cup {thing.id}
    /\ Get(after, thing.id) = thing
    /\ \A id \in Keys(before) \ {thing.id} : Get(after, id) = Get(before, id)

\* C22: add returns false exactly when replace is false and the registry has
\* an entry under thing.id, and the registry is then unchanged; in every other
\* case the registry afterwards maps thing.id to thing, every other entry is
\* unchanged and the result is true; silent changes neither.
C22_AddResult ==
    verdict.name = "add" =>
        IF ~verdict.replace /\ verdict.thing.id \in Keys(verdict.before)
        THEN verdict.value = FALSE /\ things = verdict.before
        ELSE verdict.value = TRUE /\ Inserted(verdict.before, things, verdict.thing)

\* a non-replacing add under an id of the registry, with the warning not silenced
C22_Witness ==
    /\ verdict.name = "add"
    /\ ~verdict.replace /\ ~verdict.silent
    /\ verdict.value = FALSE
    /\ verdict.thing.id \in Keys(things)
    /\ Get(things, verdict.thing.id) # verdict.thing

\* another thing of the registry is on the cell of the thing
Occupied(ths, thing) ==
    \E i \in 1..Len(ths) :
        ths[i].id # thing.id /\ ths[i].x = thing.x /\ ths[i].y = thing.y

\* C23: a non-replacing add of a thing whose cell is occupied by another thing
\* of the registry returns false and leaves the registry unchanged.
C23_AddRejectsOccupiedCell ==
    (verdict.name = "add" /\ ~verdict.replace /\ Occupied(verdict.before, verdict.thing)) =>
        verdict.value = FALSE /\ things = verdict.before

\* C24: locate(x, y) returns a thing of the registry whose position is (x, y)
\* if there is one and None otherwise, leaves the registry as it was, and
\* returns what the call before it returned when that was locate(x, y) too.
C24_Locate ==
    verdict.name = "locate" =>
        /\ IF \E i \in 1..Len(things) : things[i].x = verdict.x /\ things[i].y = verdict.y
           THEN At(things, verdict.value, verdict.x, verdict.y)
           ELSE verdict.value = None
        /\ things = verdict.before
        /\ verdict.earlier \in {<<>>, <<verdict.value>>}

\* the cell holds two things and is looked up twice in a row
C24_Witness ==
    /\ verdict.name = "locate"
    /\ verdict.earlier = <<verdict.value>>
    /\ verdict.value # None
    /\ Cardinality({i \in 1..Len(things) :
                       things[i].x = verdict.x /\ things[i].y = verdict.y}) > 1

(***************************************************************************)
(* Properties of the construction of a tile world, stated of SpecGenerate. *)
(***************************************************************************)
\* the things of the registry that have the kind, case ignored
OfKind(kind) == {i \in 1..Len(things) : Lower(things[i].kind) = kind}

\* floor(density * n) of the exact product
Floor(density, n) ==
    CHOOSE k \in 0..n : k * density.den <= density.num * n /\ density.num * n < (k + 1) * density.den

C26_NoSharedCell == pc = "done" => Distinct(things)

\* the things that are to be placed, the agent with them, are more than the cells
Overfull ==
    pc # "idle" /\ 1 + obstacle_count + hole_count + tile_count > cell_count

\* C27: when the things to be placed are more than the free cells, the
\* placement loops find no end and the construction of the world never
\* completes.
C27_NeverCompletes == Overfull => pc # "done"

\* C28: when the world is constructed the registry holds exactly one agent, on
\* the cell (width div 2, height div 2), and every thing is on a cell of
\* [0, width) x [0, height).
C28_AgentAtCentre ==
    pc = "done" =>
        /\ Cardinality(OfKind("agent")) = 1
        /\ \A i \in OfKind("agent") :
              /\ 2 * things[i].x <= world_config.width /\ world_config.width < 2 * things[i].x + 2
              /\ 2 * things[i].y <= world_config.height /\ world_config.height < 2 * things[i].y + 2
        /\ \A i \in 1..Len(things) :
              /\ 0 <= things[i].x /\ things[i].x < world_config.width
              /\ 0 <= things[i].y /\ things[i].y < world_config.height

\* a constructed world of one column, with things of every kind
C28_Witness ==
    /\ pc = "done"
    /\ world_config.width = 1 /\ world_config.height = 2
    /\ OfKind("obstacle") # {} /\ OfKind("hole") # {} /\ OfKind("tile") # {}
    /\ Cardinality(OfKind("agent")) = 1

(***************************************************************************)
(* Properties of the configuration constructors, stated of the last        *)
(* constructor call.                                                       *)
(***************************************************************************)
IsTileCall == verdict.name = "TileWorldConfiguration"
IsWorldCall == verdict.name = "WorldConfiguration"
IntOrNone(value) == value = PyNone \/ isinstance(value, "int")
FloatOrNone(value) == value = PyNone \/ isinstance(value, "float")
OrDefault(value, default) == IF value = PyNone THEN default ELSE value

\* a tile-world configuration that is valid but for a missing density
MissingDensity ==
    /\ IsTileCall
    /\ isinstance(verdict.given.name, "str")
    /\ IntOrNone(verdict.given.width)
    /\ IntOrNone(verdict.given.height)
    /\ FloatOrNone(verdict.given.obstacles)
    /\ FloatOrNone(verdict.given.holes)
    /\ (verdict.given.obstacles = PyNone \/ verdict.given.holes = PyNone)

\* C29: a tile-world configuration whose obstacle density or hole density is
\* None is accepted: construction succeeds, the missing density takes its
\* default (0.01 for obstacles, 0.001 for holes), and width and height keep
\* the values given or their defaults 80 and 50.
C29_MissingDensityAccepted ==
    MissingDensity =>
        /\ raised = NoError
        /\ world_config # NoConfig
        /\ world_config.obstacles = OrDefault(verdict.given.obstacles, PyFloat(1, 100))
        /\ world_config.holes = OrDefault(verdict.given.holes, PyFloat(1, 1000))
        /\ world_config.width = OrDefault(verdict.given.width, PyInt(80))
        /\ world_config.height = OrDefault(verdict.given.height, PyInt(50))

\* C30: a world configuration given a string name and integer (or missing)
\* width and height is constructed with the name given, the width given or 80
\* and the height given or 50; one given no name or a name that is not a
\* string raises an error and yields no configuration.
C30_WorldConfiguration ==
    IsWorldCall =>
        /\ ( /\ isinstance(verdict.given.name, "str")
             /\ IntOrNone(verdict.given.width)
             /\ IntOrNone(verdict.given.height) )
           => /\ raised = NoError
              /\ world_config # NoConfig
              /\ world_config.name = verdict.given.name
              /\ world_config.width = OrDefault(verdict.given.width, PyInt(80))
              /\ world_config.height = OrDefault(verdict.given.height, PyInt(50))
        /\ ~isinstance(verdict.given.name, "str")
           => /\ raised = "ValueError"
              /\ world_config = NoConfig

\* a configuration constructed with a missing width, which became 80
C30_Witness ==
    /\ IsWorldCall
    /\ verdict.given.name = PyStr("test")
    /\ verdict.given.width = PyNone
    /\ verdict.given.height = PyInt(3)
    /\ raised = NoError
    /\ world_config.width = PyInt(80)
    /\ world_config.height = PyInt(3)

====
